---- MODULE Spec2Model ----
(***************************************************************************)
(* A model of find_proper_nouns.py: the command-line program that reports  *)
(* the positions of named entities in a text file (detection mode) or      *)
(* finds and replaces a text in the file (replacement mode).               *)
(*                                                                         *)
(* A text is a sequence of characters, each character a one-element        *)
(* string. Offsets are zero-based as in the program; sequences are         *)
(* one-based, so the character at offset o of text s is s[o + 1].          *)
(***************************************************************************)
EXTENDS Integers, Sequences, FiniteSets, TLC

VARIABLES
    pc,                \* the statement of main() the run has reached
    run,               \* "first" or "second" invocation on the same file
    args,              \* the parsed command line (argparse namespace)
    file,              \* content of the file args.filename, or Absent
    backups,           \* the contents of the backup files beside the file
    pre,               \* content of the file when the run started
    content,           \* the buffer read from the file
    char_to_line_col,  \* the offset -> (line, column) dictionary
    matches,           \* the spans re.finditer produced, in order
    replacements,      \* the records (line_num, col_num, context)
    modified_content,  \* the result of re.sub
    ents,              \* doc.ents: the entities the recogniser returned
    results,           \* the findings of detection mode
    writes,            \* how many times the run wrote the file
    stderr,            \* the messages printed to the error stream
    stdout,            \* what was printed to standard output
    status             \* how the process ended, or "running"

vars == <<pc, run, args, file, backups, pre, content, char_to_line_col,
          matches, replacements, modified_content, ents, results, writes,
          stderr, stdout, status>>

(***************************************************************************)
(* Bounds of the model.                                                    *)
(***************************************************************************)
MaxLen == 3
MaxFind == 2
MaxEnts == 1

(***************************************************************************)
(* Characters.                                                             *)
(***************************************************************************)
NL == "\n"
BS == "\\"
SP == " "
BEL == "<BEL>"
\* An option not given and a file that does not exist: no text equals them.
None == <<"<None>">>
Absent == <<"<Absent>">>

ContentChars == {"a", "A", NL}
FindChars == {"a", "A", NL}
PadChar == "x"

Strs(A, n) == UNION {[1..k -> A] : k \in 0..n}

Min(a, b) == IF a <= b THEN a ELSE b
Max(a, b) == IF a >= b THEN a ELSE b

\* Python's s[i:j] for 0 <= i, j within or beyond the text.
Slice(s, i, j) == SubSeq(s, i + 1, Min(j, Len(s)))

(***************************************************************************)
(* The position index (find_proper_nouns lines 76-86, replace_proper_noun  *)
(* lines 164-172) and the resolution of an offset (lines 96-101, 177-181). *)
(***************************************************************************)
\* content.split('\n')
RECURSIVE Split(_)
Split(s) ==
    IF \E i \in 1..Len(s) : s[i] = NL
    THEN LET i == CHOOSE k \in 1..Len(s) :
                      s[k] = NL /\ \A j \in 1..(k - 1) : s[j] # NL
         IN <<SubSeq(s, 1, i - 1)>> \o Split(SubSeq(s, i + 1, Len(s)))
    ELSE <<s>>

EmptyIndex == [o \in {} |-> <<0, 0>>]

\* IndexLine with a fault: enumerate without start=1, columns from 0.
IndexLineFromZero(line, line_num, char_pos) ==
    [o \in char_pos..(char_pos + Len(line) - 1) |-> <<line_num, o - char_pos>>]

\* One iteration of the outer loop: every character of the line gets
\* (line_num, col_num) at the running offset char_pos, columns start at 1.
IndexLine(line, line_num, char_pos) ==
    [o \in char_pos..(char_pos + Len(line) - 1) |-> <<line_num, o - char_pos + 1>>]

\* What the outer loop adds to char_pos after a line.
NewlineAdvance == 1

\* ScanLines with a fault: the newline is not accounted for.
RECURSIVE ScanLinesNoAdvance(_, _, _, _)
ScanLinesNoAdvance(lines, line_num, char_pos, map) ==
    IF line_num > Len(lines) THEN map
    ELSE ScanLinesNoAdvance(lines, line_num + 1,
                            char_pos + Len(lines[line_num]),
                            IndexLine(lines[line_num], line_num, char_pos) @@ map)

RECURSIVE ScanLines(_, _, _, _)
ScanLines(lines, line_num, char_pos, map) ==
    IF line_num > Len(lines) THEN map
    ELSE ScanLines(lines, line_num + 1,
                   char_pos + Len(lines[line_num]) + NewlineAdvance,
                   IndexLine(lines[line_num], line_num, char_pos) @@ map)

BuildIndex(text) == ScanLines(Split(text), 1, 0, EmptyIndex)

\* str.count('\n')
CountNL(s) == Cardinality({i \in 1..Len(s) : s[i] = NL})

\* str.rfind('\n'): the zero-based offset of the last newline, or -1.
RFindNL(s) ==
    IF \E i \in 1..Len(s) : s[i] = NL
    THEN (CHOOSE i \in 1..Len(s) :
              s[i] = NL /\ \A j \in (i + 1)..Len(s) : s[j] # NL) - 1
    ELSE -1

\* The else branch: recomputation from the prefix before the offset.
Fallback(text, start) ==
    <<CountNL(Slice(text, 0, start)) + 1,
      start - RFindNL(Slice(text, 0, start))>>

LineCol(text, index, start) ==
    IF start \in DOMAIN index THEN index[start] ELSE Fallback(text, start)

(***************************************************************************)
(* Literal patterns: re.escape, the compiled pattern, matching with and    *)
(* without re.IGNORECASE, re.finditer and re.sub.                          *)
(***************************************************************************)
\* The characters re.escape puts a backslash before (those of the model).
SpecialChars == {NL, BS, SP, "."}

RECURSIVE ReEscape(_)
ReEscape(s) ==
    IF s = <<>> THEN <<>>
    ELSE (IF Head(s) \in SpecialChars THEN <<BS, Head(s)>> ELSE <<Head(s)>>)
         \o ReEscape(Tail(s))

\* The compiled pattern: a sequence of elements, a literal character or
\* (for an unescaped dot) any character but a newline.
Lit(c) == [kind |-> "lit", ch |-> c]
AnyChar == [kind |-> "any", ch |-> "."]

RECURSIVE Compile(_)
Compile(p) ==
    IF p = <<>> THEN <<>>
    ELSE IF Head(p) = BS /\ Len(p) >= 2
         THEN <<Lit(p[2])>> \o Compile(SubSeq(p, 3, Len(p)))
    ELSE IF Head(p) = "." THEN <<AnyChar>> \o Compile(Tail(p))
    ELSE <<Lit(Head(p))>> \o Compile(Tail(p))

\* Lines 155-160: the pattern and the flags.
Pattern(find_text) == Compile(ReEscape(find_text))
IgnoreCase(case_sensitive) == ~case_sensitive

\* Lower with a fault: no case mapping, as if IGNORECASE were not passed.
LowerIdentity(c) == c

\* The lower-case mapping IGNORECASE compares characters under.
Lower(c) == IF c = "A" THEN "a" ELSE c

ElemMatches(e, c, ic) ==
    IF e.kind = "any" THEN c # NL
    ELSE IF ic THEN Lower(c) = Lower(e.ch) ELSE c = e.ch

\* The pattern matches the text at offset s.
MatchAt(pat, text, ic, s) ==
    /\ s + Len(pat) <= Len(text)
    /\ \A i \in 1..Len(pat) : ElemMatches(pat[i], text[s + i], ic)

\* Where the scan resumes after a match at s: past the match, and one
\* further after an empty match.
Resume(pat, s) == IF Len(pat) = 0 THEN s + 1 ELSE s + Len(pat)

\* The matches from offset pos on, leftmost first, non-overlapping.
RECURSIVE FindFrom(_, _, _, _)
FindFrom(pat, text, ic, pos) ==
    IF \E s \in pos..Len(text) : MatchAt(pat, text, ic, s)
    THEN LET s == CHOOSE k \in pos..Len(text) :
                      /\ MatchAt(pat, text, ic, k)
                      /\ \A j \in pos..(k - 1) : ~MatchAt(pat, text, ic, j)
         IN <<[start |-> s, end |-> s + Len(pat)]>>
            \o FindFrom(pat, text, ic, Resume(pat, s))
    ELSE <<>>

\* re.finditer(pattern, content, flags)
FindIter(pat, text, ic) == FindFrom(pat, text, ic, 0)

\* The replacement template of re.sub: a backslash starts an escape.
\* ok is FALSE where re raises re.error (a bad escape).
EscapeOf(c) == IF c = "n" THEN NL ELSE IF c = "a" THEN BEL ELSE BS
KnownEscapes == {"n", "a", BS}
AsciiLetters == {"a", "A", "b", "n", "x"}

RECURSIVE ParseTemplate(_)
ParseTemplate(t) ==
    IF t = <<>> THEN [ok |-> TRUE, text |-> <<>>]
    ELSE IF Head(t) # BS
         THEN LET r == ParseTemplate(Tail(t))
              IN [ok |-> r.ok, text |-> <<Head(t)>> \o r.text]
    ELSE IF Len(t) = 1 THEN [ok |-> FALSE, text |-> <<>>]
    ELSE LET r == ParseTemplate(SubSeq(t, 3, Len(t)))
         IN IF t[2] \in KnownEscapes
            THEN [ok |-> r.ok, text |-> <<EscapeOf(t[2])>> \o r.text]
            ELSE IF t[2] \in AsciiLetters
                 THEN [ok |-> FALSE, text |-> <<>>]
            ELSE [ok |-> r.ok, text |-> <<BS, t[2]>> \o r.text]

\* The text between the matches and after the last one, with the expanded
\* template in place of each match.
RECURSIVE Substitute(_, _, _, _)
Substitute(text, ms, pos, repl) ==
    IF ms = <<>> THEN Slice(text, pos, Len(text))
    ELSE Slice(text, pos, Head(ms).start) \o repl
         \o Substitute(text, Tail(ms), Head(ms).end, repl)

\* re.sub(pattern, replace_text, content, flags=flags), where it returns.
ReSub(pat, replace_text, text, ic) ==
    Substitute(text, FindIter(pat, text, ic), 0, ParseTemplate(replace_text).text)

(***************************************************************************)
(* The context of a match (lines 184-186).                                 *)
(***************************************************************************)
ContextWidth == 20

Flatten(s) == [i \in 1..Len(s) |-> IF s[i] = NL THEN SP ELSE s[i]]

\* Context with a fault: the window ends 20 characters after the match's
\* start instead of its end.
ContextFromStart(text, m) ==
    Flatten(Slice(text, Max(0, m.start - ContextWidth),
                  Min(Len(text), m.start + ContextWidth)))

Context(text, m) ==
    Flatten(Slice(text, Max(0, m.start - ContextWidth),
                  Min(Len(text), m.end + ContextWidth)))

\* Lines 175-188: one record per match, in the order of the matches.
Record(text, index, m) ==
    [line_num |-> LineCol(text, index, m.start)[1],
     col_num |-> LineCol(text, index, m.start)[2],
     context |-> Context(text, m)]

Records(text, index, ms) == [i \in 1..Len(ms) |-> Record(text, index, ms[i])]

(***************************************************************************)
(* Detection (find_proper_nouns lines 88-105) and the two tables.          *)
(***************************************************************************)
ProperNounTypes ==
    {"PERSON", "ORG", "GPE", "PRODUCT", "EVENT", "WORK_OF_ART", "LAW",
     "LANGUAGE", "DATE", "TIME"}

\* The labels the model lets the recogniser give: one accepted, one not.
Labels == {"PERSON", "CARDINAL"}

\* What the recogniser may return for a text: entities are non-empty spans,
\* in order and non-overlapping. Which spans it picks is up to the model.
Spans(text) ==
    {[start |-> s, end |-> e, label |-> l] :
        s \in 0..(Len(text) - 1), e \in 1..Len(text), l \in Labels}

EntSeqs(text) ==
    {es \in Strs({sp \in Spans(text) : sp.start < sp.end}, MaxEnts) :
        \A i \in 1..(Len(es) - 1) : es[i].end <= es[i + 1].start}

Finding(text, index, ent) ==
    [text |-> Slice(text, ent.start, ent.end),
     line_num |-> LineCol(text, index, ent.start)[1],
     col_num |-> LineCol(text, index, ent.start)[2],
     entity_type |-> ent.label]

\* Lines 92-103: the accepted entities, in the recogniser's order.
RECURSIVE Findings(_, _, _)
Findings(text, index, es) ==
    IF es = <<>> THEN <<>>
    ELSE (IF Head(es).label \in ProperNounTypes
          THEN <<Finding(text, index, Head(es))>> ELSE <<>>)
         \o Findings(text, index, Tail(es))

\* sorted(results, key=lambda x: (x[1], x[2])): a stable insertion sort.
KeyLE(a, b) ==
    \/ a.line_num < b.line_num
    \/ a.line_num = b.line_num /\ a.col_num <= b.col_num

RECURSIVE Insert(_, _)
Insert(sorted, x) ==
    IF sorted = <<>> THEN <<x>>
    ELSE IF KeyLE(Head(sorted), x) THEN <<Head(sorted)>> \o Insert(Tail(sorted), x)
    ELSE <<x>> \o sorted

RECURSIVE Sorted(_)
Sorted(rs) ==
    IF rs = <<>> THEN <<>>
    ELSE Insert(Sorted(SubSeq(rs, 1, Len(rs) - 1)), rs[Len(rs)])

\* text[:keep] + "..." if len(text) > limit else text
Ellipsis == <<".", ".", ".">>
Truncate(text, keep, limit) ==
    IF Len(text) > limit THEN SubSeq(text, 1, keep) \o Ellipsis ELSE text

TextKeep == 27
TextLimit == 30
ContextKeep == 47
ContextLimit == 50

FindingRows(rs) ==
    [i \in 1..Len(rs) |->
        <<Sorted(rs)[i].line_num, Sorted(rs)[i].col_num,
          Truncate(Sorted(rs)[i].text, TextKeep, TextLimit),
          Sorted(rs)[i].entity_type>>]

RecordRows(rs) ==
    [i \in 1..Len(rs) |->
        <<rs[i].line_num, rs[i].col_num,
          Truncate(rs[i].context, ContextKeep, ContextLimit)>>]

(***************************************************************************)
(* The inputs of the model.                                                *)
(***************************************************************************)
Finds == Strs(FindChars, MaxFind)

\* Replacement texts: plain ones, and ones with a backslash (alone, doubled,
\* before n).
ReplaceTexts ==
    {<<>>, <<"a">>, <<"b">>, <<BS>>, <<BS, BS>>, <<BS, "n">>}

SmallFiles == Strs(ContentChars, MaxLen) \cup {Absent}

AllArgs ==
    [find : Finds \cup {None}, replace : ReplaceTexts \cup {None},
     dry_run : BOOLEAN, case_sensitive : BOOLEAN, backup : BOOLEAN]

\* Files long enough for a context window not to be clipped: a short text
\* between two runs of a character no search text holds.
Pad(n) == [i \in 1..n |-> PadChar]

PaddedFiles ==
    {Pad(p) \o core \o Pad(q) :
        p \in {0, ContextWidth - 1}, q \in {0, ContextWidth - 1},
        core \in Strs(ContentChars, MaxLen)}

PaddedArgs ==
    [find : Finds, replace : {<<"b">>},
     dry_run : BOOLEAN, case_sensitive : BOOLEAN, backup : {FALSE}]

NoStdout == [kind |-> "nothing", rows |-> <<>>]

Init ==
    /\ \/ file \in SmallFiles /\ args \in AllArgs
       \/ file \in PaddedFiles /\ args \in PaddedArgs
    /\ pc = "main"
    /\ run = "first"
    /\ backups = {}
    /\ pre = file
    /\ content = <<>>
    /\ char_to_line_col = EmptyIndex
    /\ matches = <<>>
    /\ replacements = <<>>
    /\ modified_content = <<>>
    /\ ents = <<>>
    /\ results = <<>>
    /\ writes = 0
    /\ stderr = <<>>
    /\ stdout = NoStdout
    /\ status = "running"

(***************************************************************************)
(* The program: main() and the functions it calls, one action per step.    *)
(***************************************************************************)
\* sys.exit(1) after a message on the error stream.
Exit1(msg) ==
    /\ pc' = "exit"
    /\ status' = "exit1"
    /\ stderr' = Append(stderr, msg)

\* An exception nothing catches: the interpreter prints a traceback.
Uncaught(exc) ==
    /\ pc' = "exit"
    /\ status' = "exception"
    /\ stderr' = Append(stderr, exc)

\* FirstStep with a fault: replacement mode goes straight to the replacement.
FirstStepNoBackup(a) ==
    IF a.find = None THEN "find_proper_nouns" ELSE "read"

\* Lines 263-270 and 299-302: what main does first in each mode.
FirstStep(a) ==
    IF a.find = None THEN "find_proper_nouns"
    ELSE IF a.backup THEN "create_backup"
    ELSE "read"

\* main, lines 255-266 and 299-300: the flags are validated, the mode chosen.
Validate ==
    /\ pc = "main"
    /\ IF (args.find = None) # (args.replace = None)
       THEN Exit1("Error: --find and --replace must be used together.")
       ELSE /\ pc' = FirstStep(args)
            /\ stderr' = Append(stderr, IF args.find = None
                                        THEN "Detection Mode"
                                        ELSE "Find and Replace Mode")
            /\ status' = status
    /\ UNCHANGED <<run, args, file, backups, pre, content, char_to_line_col,
                   matches, replacements, modified_content, ents, results, writes,
                   stdout>>

\* create_backup, lines 43-48, called at lines 269-270. shutil.copy2 raises
\* when the file is missing or cannot be copied, and nothing catches it. A
\* backup made in the same second as an earlier one takes its name.
CreateBackup ==
    /\ pc = "create_backup"
    /\ \E copied \in BOOLEAN, same_second \in BOOLEAN :
         IF file = Absent
         THEN Uncaught("FileNotFoundError") /\ backups' = backups
         ELSE IF ~copied
         THEN Uncaught("OSError") /\ backups' = backups
         ELSE /\ backups' = IF same_second THEN {file} ELSE backups \cup {file}
              /\ stderr' = Append(stderr, "Backup created")
              /\ pc' = "read"
              /\ status' = status
    /\ UNCHANGED <<run, args, file, pre, content, char_to_line_col, matches,
                   replacements, modified_content, ents, results, writes, stdout>>

\* replace_proper_noun, lines 144-152: the file is read.
ReadFile ==
    /\ pc = "read"
    /\ \E readable \in BOOLEAN :
         IF file = Absent
         THEN Exit1("Error: File not found.") /\ content' = content
         ELSE IF ~readable
         THEN Exit1("Error reading file") /\ content' = content
         ELSE /\ content' = file
              /\ pc' = "scan"
              /\ UNCHANGED <<status, stderr>>
    /\ UNCHANGED <<run, args, file, backups, pre, char_to_line_col, matches,
                   replacements, modified_content, ents, results, writes, stdout>>

\* re.sub raises re.error for a replacement text it cannot parse.
SubRaises(replace_text) == ~ParseTemplate(replace_text).ok

\* replace_proper_noun, lines 154-192: the index, the matches and their
\* records, then the substitution.
Scan ==
    /\ pc = "scan"
    /\ char_to_line_col' = BuildIndex(content)
    /\ matches' = FindIter(Pattern(args.find), content,
                           IgnoreCase(args.case_sensitive))
    /\ replacements' = Records(content, char_to_line_col', matches')
    /\ IF SubRaises(args.replace)
       THEN Uncaught("re.error") /\ modified_content' = modified_content
       ELSE /\ modified_content' = ReSub(Pattern(args.find), args.replace, content,
                                         IgnoreCase(args.case_sensitive))
            /\ pc' = "write"
            /\ UNCHANGED <<status, stderr>>
    /\ UNCHANGED <<run, args, file, backups, pre, content, ents, results, writes,
                   stdout>>

\* len(replacements)
ReplacementCount == Len(replacements)

\* ShouldWrite with a fault: the dry_run flag is ignored.
ShouldWriteIgnoringDryRun(dry_run, replacement_count) == replacement_count > 0

\* ShouldWrite with a fault: the file is written also when nothing matched.
ShouldWriteWithoutMatch(dry_run, replacement_count) == ~dry_run

\* Line 195: the file is written when this holds.
ShouldWrite(dry_run, replacement_count) == ~dry_run /\ replacement_count > 0

\* replace_proper_noun, lines 194-204. open(..., 'w') may fail and leave the
\* file as it is, or the write may fail after open truncated the file (the
\* model takes the case in which nothing reached the file).
WriteFile ==
    /\ pc = "write"
    /\ IF ShouldWrite(args.dry_run, ReplacementCount)
       THEN \E outcome \in {"written", "open fails", "write fails"} :
              IF outcome = "written"
              THEN /\ file' = modified_content
                   /\ writes' = writes + 1
                   /\ stderr' = Append(stderr, "Successfully replaced")
                   /\ pc' = "report"
                   /\ status' = status
              ELSE /\ file' = IF outcome = "open fails" THEN file ELSE <<>>
                   /\ writes' = writes
                   /\ Exit1("Error writing to file")
       ELSE /\ pc' = "report"
            /\ UNCHANGED <<file, writes, stderr, status>>
    /\ UNCHANGED <<run, args, backups, pre, content, char_to_line_col, matches,
                   replacements, modified_content, ents, results, stdout>>

\* main, lines 281-296: the table of the replacements.
Report ==
    /\ pc = "report"
    /\ stdout' = IF ReplacementCount = 0
                 THEN [kind |-> "No matches found", rows |-> <<>>]
                 ELSE [kind |-> IF args.dry_run THEN "Would replace" ELSE "Replaced",
                       rows |-> RecordRows(replacements)]
    /\ pc' = "exit"
    /\ status' = "exit0"
    /\ UNCHANGED <<run, args, file, backups, pre, content, char_to_line_col,
                   matches, replacements, modified_content, ents, results, writes,
                   stderr>>

\* find_proper_nouns, lines 58-105: the file is read, the model loaded and run,
\* the accepted entities located.
FindProperNouns ==
    /\ pc = "find_proper_nouns"
    /\ \E readable \in BOOLEAN, model_found \in BOOLEAN :
         IF file = Absent
         THEN /\ Exit1("Error: File not found.")
              /\ UNCHANGED <<content, char_to_line_col, ents, results>>
         ELSE IF ~readable
         THEN /\ Exit1("Error reading file")
              /\ UNCHANGED <<content, char_to_line_col, ents, results>>
         ELSE IF ~model_found
         THEN /\ pc' = "exit"
              /\ status' = "exit1"
              /\ stderr' = stderr \o <<"Loading spaCy model",
                                        "Error: spaCy model not found.">>
              /\ content' = file
              /\ UNCHANGED <<char_to_line_col, ents, results>>
         ELSE \E es \in EntSeqs(file) :
              /\ content' = file
              /\ ents' = es
              /\ char_to_line_col' = BuildIndex(file)
              /\ results' = Findings(file, char_to_line_col', es)
              /\ pc' = "print_results"
              /\ stderr' = stderr \o <<"Loading spaCy model", "Processing text">>
              /\ status' = status
    /\ UNCHANGED <<run, args, file, backups, pre, matches, replacements,
                   modified_content, writes, stdout>>

\* print_results, lines 108-121, called at line 305.
PrintResults ==
    /\ pc = "print_results"
    /\ stdout' = IF results = <<>>
                 THEN [kind |-> "No proper nouns found.", rows |-> <<>>]
                 ELSE [kind |-> "Found", rows |-> FindingRows(results)]
    /\ pc' = "exit"
    /\ status' = "exit0"
    /\ UNCHANGED <<run, args, file, backups, pre, content, char_to_line_col,
                   matches, replacements, modified_content, ents, results, writes,
                   stderr>>

\* The run ended with the exception exc.
Raised(exc) ==
    pc = "exit" /\ status = "exception" /\ stderr[Len(stderr)] = exc

\* The run ended on a failure of input or output (a missing or unreadable
\* file, a failed copy or write, a missing model) or on mismatched flags.
IOFailed ==
    \/ status = "exit1"
    \/ Raised("OSError")
    \/ Raised("FileNotFoundError")

\* The program is invoked a second time with the same command line, after a
\* first run that no such failure ended; nothing but the files outlives the
\* first process.
Rerun ==
    /\ pc = "exit"
    /\ run = "first"
    /\ ~IOFailed
    /\ run' = "second"
    /\ pc' = "main"
    /\ pre' = file
    /\ content' = <<>>
    /\ char_to_line_col' = EmptyIndex
    /\ matches' = <<>>
    /\ replacements' = <<>>
    /\ modified_content' = <<>>
    /\ ents' = <<>>
    /\ results' = <<>>
    /\ writes' = 0
    /\ stderr' = <<>>
    /\ stdout' = NoStdout
    /\ status' = "running"
    /\ UNCHANGED <<args, file, backups>>

Next ==
    \/ Validate
    \/ CreateBackup
    \/ ReadFile
    \/ Scan
    \/ WriteFile
    \/ Report
    \/ FindProperNouns
    \/ PrintResults
    \/ Rerun

Spec == Init /\ [][Next]_vars

(***************************************************************************)
(* Vocabulary of the properties.                                           *)
(***************************************************************************)
ReplaceMode == args.find # None /\ args.replace # None

\* replace_proper_noun has returned to main.
Returned == ReplaceMode /\ (pc = "report" \/ (pc = "exit" /\ status = "exit0"))

\* The scan of replace_proper_noun has run: it went on to the write, or the
\* substitution raised after the records were made.
ScanDone == pc = "write" \/ Raised("re.error")

\* The position index of the run has been built.
IndexBuilt == ScanDone \/ pc = "print_results"

\* Two characters are the same, up to case when ic holds.
CaseFold(c) == IF c \in {"a", "A"} THEN "a" ELSE c
CharSame(c, d, ic) == IF ic THEN CaseFold(c) = CaseFold(d) ELSE c = d

\* The text f occurs in the text at offset s.
OccursAt(text, f, ic, s) ==
    /\ s + Len(f) <= Len(text)
    /\ \A i \in 1..Len(f) : CharSame(text[s + i], f[i], ic)

Occurs(text, f, ic) == \E s \in 0..Len(text) : OccursAt(text, f, ic, s)

\* The line and the column of offset s by offset arithmetic.
RefLine(text, s) == 1 + Cardinality({o \in 0..(s - 1) : text[o + 1] = NL})

LineStart(text, s) ==
    CHOOSE p \in 0..s :
        /\ p = 0 \/ text[p] = NL
        /\ \A o \in p..(s - 1) : text[o + 1] # NL

RefPos(text, s) == <<RefLine(text, s), s - LineStart(text, s) + 1>>

Accepted(e) == e.label \in ProperNounTypes

\* C1: with dry_run the file stays exactly as it was before the run and is
\* never written, however many matches there are.
C1_DryRunKeepsFile ==
    (ReplaceMode /\ args.dry_run) => (file = pre /\ writes = 0)

C1_Witness ==
    /\ ReplaceMode /\ args.dry_run
    /\ pc = "exit" /\ status = "exit0"
    /\ Len(matches) > 0
    /\ modified_content # content

\* C2: a run without dry_run that returns leaves the file equal to the
\* returned modified_content, having written it once when there is a match
\* and not at all when there is none.
C2_FileIsModifiedContent ==
    (Returned /\ ~args.dry_run) =>
        /\ file = modified_content
        /\ writes = IF Len(matches) > 0 THEN 1 ELSE 0

C2_Witness ==
    /\ Returned /\ ~args.dry_run
    /\ writes = 1
    /\ file # pre

\* C3: every reported position is line = 1 + the newlines before the offset
\* and column = offset - offset of the line's first character + 1, also for
\* the offsets the fallback resolves; both are at least 1, and the index and
\* the fallback agree wherever the index has the offset.
C3_Positions ==
    /\ ScanDone =>
         \A i \in 1..Len(matches) :
            /\ <<replacements[i].line_num, replacements[i].col_num>>
                 = RefPos(content, matches[i].start)
            /\ replacements[i].line_num >= 1
            /\ replacements[i].col_num >= 1
    /\ pc = "print_results" =>
         /\ Len(results) = Len(SelectSeq(ents, Accepted))
         /\ \A i \in 1..Len(results) :
              /\ <<results[i].line_num, results[i].col_num>>
                   = RefPos(content, SelectSeq(ents, Accepted)[i].start)
              /\ results[i].line_num >= 1
              /\ results[i].col_num >= 1
    /\ IndexBuilt =>
         /\ \A s \in 0..Len(content) :
              LineCol(content, char_to_line_col, s) = RefPos(content, s)
         /\ \A s \in DOMAIN char_to_line_col :
              char_to_line_col[s] = Fallback(content, s)

\* A match on the second line or later whose offset the fallback resolved,
\* one the index resolved, and one past the first column.
C3_Witness ==
    /\ pc = "write"
    /\ \E i \in 1..Len(matches) :
         /\ matches[i].start \notin DOMAIN char_to_line_col
         /\ replacements[i].line_num > 1
    /\ \E i \in 1..Len(matches) :
         /\ matches[i].start \in DOMAIN char_to_line_col
         /\ replacements[i].line_num > 1
    /\ \E i \in 1..Len(matches) : replacements[i].col_num > 1

\* C4, as claimed: every offset inside the buffer is a key of the index.
C4_IndexTotal ==
    IndexBuilt => \A o \in 0..(Len(content) - 1) : o \in DOMAIN char_to_line_col

\* C4, amended: the keys of the index are exactly the offsets inside the
\* buffer of the characters that are not line terminators; a match is
\* resolved by the fallback exactly when it starts at a line terminator or
\* at the end of the buffer.
C4_IndexCoversNonTerminators ==
    IndexBuilt =>
        /\ DOMAIN char_to_line_col
             = {o \in 0..(Len(content) - 1) : content[o + 1] # NL}
        /\ \A i \in 1..Len(matches) :
             matches[i].start \notin DOMAIN char_to_line_col
               <=> \/ matches[i].start = Len(content)
                   \/ content[matches[i].start + 1] = NL

C4_Witness ==
    /\ pc = "write"
    /\ \E i \in 1..Len(matches) :
         /\ matches[i].start < Len(content)
         /\ matches[i].start \notin DOMAIN char_to_line_col
    /\ \E o \in DOMAIN char_to_line_col : char_to_line_col[o][1] > 1

\* The text with each leftmost non-overlapping occurrence of f, scanning
\* from offset pos, replaced by repl character for character.
RECURSIVE LiteralReplace(_, _, _, _, _)
LiteralReplace(text, f, repl, ic, pos) ==
    IF pos > Len(text) THEN <<>>
    ELSE IF OccursAt(text, f, ic, pos) /\ Len(f) > 0
         THEN repl \o LiteralReplace(text, f, repl, ic, pos + Len(f))
    ELSE (IF OccursAt(text, f, ic, pos) THEN repl ELSE <<>>)
         \o (IF pos < Len(text) THEN <<text[pos + 1]>> ELSE <<>>)
         \o LiteralReplace(text, f, repl, ic, pos + 1)

\* How many occurrences that scan replaces.
RECURSIVE LiteralCount(_, _, _, _)
LiteralCount(text, f, ic, pos) ==
    IF pos > Len(text) THEN 0
    ELSE IF OccursAt(text, f, ic, pos)
         THEN 1 + LiteralCount(text, f, ic, IF Len(f) > 0 THEN pos + Len(f) ELSE pos + 1)
    ELSE LiteralCount(text, f, ic, pos + 1)

\* C5: the search text and the replacement text are both taken literally:
\* modified_content is the content with every leftmost non-overlapping
\* occurrence replaced by the replacement text character for character, and
\* replacement_count is the number of records and of occurrences replaced.
C5_LiteralReplacement ==
    (ReplaceMode /\ ScanDone) =>
        /\ pc = "write"
        /\ modified_content
             = LiteralReplace(content, args.find, args.replace,
                              ~args.case_sensitive, 0)
        /\ ReplacementCount = Len(matches)
        /\ ReplacementCount
             = LiteralCount(content, args.find, ~args.case_sensitive, 0)

\* The spans ms are the leftmost non-overlapping occurrences of f in the
\* text: each is an occurrence, they are in order and disjoint, and every
\* occurrence is one of them or starts inside one of them.
LeftmostMatches(ms, text, f, ic) ==
    /\ \A i \in 1..Len(ms) :
         /\ ms[i].end = ms[i].start + Len(f)
         /\ OccursAt(text, f, ic, ms[i].start)
    /\ \A i \in 1..(Len(ms) - 1) :
         /\ ms[i].start < ms[i + 1].start
         /\ ms[i].end <= ms[i + 1].start
    /\ \A s \in 0..Len(text) :
         OccursAt(text, f, ic, s) =>
            \/ \E i \in 1..Len(ms) : ms[i].start = s
            \/ \E i \in 1..Len(ms) : ms[i].start < s /\ s < ms[i].end

\* The texts that differ from f in case only.
CaseVariants(f) ==
    {g \in [DOMAIN f -> FindChars] :
        \A i \in DOMAIN f : CaseFold(g[i]) = CaseFold(f[i])}

\* C6: without case_sensitive the matches are the leftmost non-overlapping
\* places where the content equals the search text up to case, and every
\* search text that differs in case only gives the same matches, records and
\* modified content; with case_sensitive they are the places where the
\* content equals the search text character for character.
C6_CaseMatching ==
    (ReplaceMode /\ ScanDone) =>
        /\ LeftmostMatches(matches, content, args.find, ~args.case_sensitive)
        /\ ~args.case_sensitive =>
             \A g \in CaseVariants(args.find) :
                /\ FindIter(Pattern(g), content, TRUE) = matches
                /\ Records(content, BuildIndex(content),
                           FindIter(Pattern(g), content, TRUE)) = replacements
                /\ pc = "write" =>
                     ReSub(Pattern(g), args.replace, content, TRUE)
                       = modified_content

\* A match of a search text in another case than the content's, and a
\* variant of the search text in yet another.
C6_Witness ==
    /\ pc = "write"
    /\ ~args.case_sensitive
    /\ \E i \in 1..Len(matches) :
         Slice(content, matches[i].start, matches[i].end) # args.find
    /\ Cardinality(CaseVariants(args.find)) > 2
    /\ modified_content # content

\* C7: when the search text does not occur in the file the first run left,
\* a second run with the same arguments reports no match, does not write and
\* leaves the file as the first run left it.
C7_SecondRunIdempotent ==
    (/\ run = "second" /\ pc = "exit"
     /\ ReplaceMode /\ ~args.dry_run
     /\ pre # Absent
     /\ ~Occurs(pre, args.find, ~args.case_sensitive)
     /\ ~IOFailed) =>
        /\ status = "exit0"
        /\ stdout.kind = "No matches found"
        /\ writes = 0
        /\ file = pre

\* C8: with --backup, whenever the file changes a backup equal to the file's
\* content before the run already exists, and the backup step leaves the
\* file alone.
C8_BackupBeforeWrite ==
    [][/\ (ReplaceMode /\ args.backup /\ file' # file) =>
            (pre \in backups /\ file = pre)
       /\ pc = "create_backup" => file' = file]_vars

C8_Witness ==
    /\ ReplaceMode /\ args.backup
    /\ writes = 1
    /\ file # pre
    /\ pre \in backups

ErrorMessages ==
    {"Error: --find and --replace must be used together.",
     "Error: File not found.", "Error reading file",
     "Error: spaCy model not found.", "Error writing to file"}

\* C9: every failure ends the run through the program's own error path: a
\* message on the error stream and exit status 1, never an exception out of
\* main; a missing file or mismatched flags leave every file as it was.
C9_FailuresAreHandled ==
    pc = "exit" =>
        /\ status \in {"exit0", "exit1"}
        /\ status = "exit1" => stderr[Len(stderr)] \in ErrorMessages
        /\ pre = Absent =>
             /\ status = "exit1"
             /\ file = Absent
             /\ run = "first" => backups = {}
        /\ (args.find = None) # (args.replace = None) =>
             /\ status = "exit1"
             /\ file = pre
             /\ run = "first" => backups = {}

\* The text sub occurs somewhere in the text.
Contains(text, sub) == \E s \in 0..Len(text) : OccursAt(text, sub, FALSE, s)

\* C10, the part that holds as claimed: one record per match in ascending
\* order of the start; the context is the content from max(0, s - 20) up to
\* min(n, e + 20) with every newline replaced by a space, so it holds no
\* newline and is (e - s) + 40 long unless the window is clipped.
ContextWindow(i) ==
    LET s == matches[i].start
        e == matches[i].end
        lo == IF s - 20 > 0 THEN s - 20 ELSE 0
        hi == IF e + 20 < Len(content) THEN e + 20 ELSE Len(content)
        ctx == replacements[i].context
    IN /\ Len(ctx) = hi - lo
       /\ \A k \in 1..(hi - lo) :
            ctx[k] = IF content[lo + k] = NL THEN SP ELSE content[lo + k]
       /\ \A k \in 1..Len(ctx) : ctx[k] # NL
       /\ Len(ctx) <= (e - s) + 40
       /\ Len(ctx) < (e - s) + 40 => (s < 20 \/ e + 20 > Len(content))

RecordsInOrder ==
    /\ Len(replacements) = Len(matches)
    /\ \A i \in 1..(Len(matches) - 1) : matches[i].start < matches[i + 1].start

\* C10, as claimed: besides, the context contains the matched text.
C10_ContextHoldsMatch ==
    ScanDone =>
        /\ RecordsInOrder
        /\ \A i \in 1..Len(matches) :
             /\ ContextWindow(i)
             /\ Contains(replacements[i].context,
                         Slice(content, matches[i].start, matches[i].end))

\* C10, amended: besides, the context contains the matched text with its
\* newlines replaced by spaces (the matched text itself when it has none).
C10_ContextHoldsFlattenedMatch ==
    ScanDone =>
        /\ RecordsInOrder
        /\ \A i \in 1..Len(matches) :
             /\ ContextWindow(i)
             /\ Contains(replacements[i].context,
                         [k \in 1..(matches[i].end - matches[i].start) |->
                            IF content[matches[i].start + k] = NL THEN SP
                            ELSE content[matches[i].start + k]])

\* A match that holds a newline, with a full window on both sides.
C10_Witness ==
    /\ pc = "write"
    /\ \E i \in 1..Len(matches) :
         /\ matches[i].start >= 20
         /\ matches[i].end + 20 <= Len(content)
         /\ Len(replacements[i].context) = (matches[i].end - matches[i].start) + 40
         /\ \E o \in matches[i].start..(matches[i].end - 1) : content[o + 1] = NL

====
